---- MODULE Spec2Model ----
(***************************************************************************)
(* Model of the two reinforcement-learning scripts of ai-gymnasium:        *)
(*   src/Mountain Car/mountainCar.qLearning.py  (tabular Q-learning)       *)
(*   src/Atari Breakout/atariBreakout.py        (deep Q-network)           *)
(*                                                                         *)
(* Numbers.  Observations are integers in half-bin units (position: 0.05,  *)
(* velocity: 0.005), so that np.round's ties are representable.  Q-values  *)
(* are fixed-point integers, QScale units per 1.0; one update of a table   *)
(* of whole-number values is exact, later ones are rounded to the nearest  *)
(* unit as float arithmetic rounds to the nearest float.  The exploration  *)
(* values are counted in units of their decay amount.                      *)
(***************************************************************************)
EXTENDS Integers, Sequences, FiniteSets, TLC

VARIABLES
    pc,             \* position of the script / of the driver of a pure call
    \* ---- tabular script ----
    qTable,         \* Qtable.qTable, [TableIndex -> fixed-point value]
    qBefore,        \* history: qTable as it was before the latest operation
    state,          \* state (observation before the transition)
    next_state,     \* next_state returned by env.step
    stateBefore,    \* history: the state the latest env.step was taken from
    action,         \* action of the latest step
    reward,         \* reward of the latest env.step
    terminated,     \* history: terminated flag returned by the latest env.step
    truncated,      \* truncated flag returned by the latest env.step
    done,           \* loop variable done
    episode,        \* loop variable episode
    episode_reward, \* loop variable episode_reward
    epsillon,       \* tabular exploration value, in units of epsillon_decay
    optimazeReward, \* configuration flag optimazeReward
    episode_max_x,  \* loop variable episode_max_x
    env_steps,      \* the environment's elapsed steps of the episode (TimeLimit)
    ds,             \* result of the latest Qtable.discretizeState driver call
    buckets,        \* discretize_array of the run, in the observations' units
    episodes_reward,    \* the reward trace, deque(maxlen=min_episodes_criterion)
    mean_reward,        \* mean_reward as <<sum, count>> of the averaged rewards
    early_mean_high,    \* history: a report before min_episodes_criterion
                        \* episodes computed a mean above reward_threshold
    broke,              \* history: the episode loop was left by its break
    demo_i,             \* loop variable i of the demonstration loop
    stepped_after_terminated,   \* history: the demonstration loop called
                        \* env.step after a step that returned terminated
    \* ---- deep script ----
    step,           \* loop variable step
    total_frames,   \* total_frames, saturating just above the warm-up
    epsilon,        \* deep exploration value, in units of epsilon_decay
    train_model,    \* configuration flag train_model
    onlineW,        \* parameters of Model.model (the online network)
    cloneW,         \* parameters of Model.clone (the target network)
    frames_state,   \* FramesState deque, oldest frame first
    trained,        \* history: the latest step invoked Model.train
    synced,         \* history: the latest step invoked Model.update_weights
    syncs_in_episode,   \* history: update_weights calls of this episode (capped)
    episode_over,       \* history: an env.step of this episode returned
                        \* terminated or truncated
    stepped_after_over, \* history: env.step was called after that
    onlineStart,        \* history: onlineW after construction
    onlineAtSync,       \* history: onlineW just before the latest update_weights
    env_action,         \* history: the action the latest env.step was given
    consulted,          \* history: the latest step ran the epsilon-greedy selection
    train_input,        \* history: the time series the latest step gave to
                        \* Model.train (<<>> when it did not train)
    frames_before,      \* history: frames_state before the latest step or
                        \* FramesState operation that could change it
    frame_in,           \* history: the observation the latest addFrame was given
    tensor,             \* result of the latest FramesState.getTensor driver call
    prev_op,            \* history: pc before the latest FramesState driver call
    was_reset           \* history: FramesState.reset has been called

\* Variables of both scripts, of the tabular script only, of the deep one only.
sharedVars == <<action, reward, terminated, truncated, done, episode, env_steps>>
tabVars == <<qTable, qBefore, state, next_state, stateBefore, episode_reward,
             epsillon, optimazeReward, episode_max_x, ds>>
runVars == <<buckets, episodes_reward, mean_reward, early_mean_high, broke,
             demo_i, stepped_after_terminated>>
deepVars == <<step, total_frames, epsilon, train_model, onlineW, cloneW,
              frames_state, trained, synced, syncs_in_episode, episode_over,
              stepped_after_over, onlineStart, onlineAtSync, env_action,
              consulted, train_input, frames_before, frame_in, tensor, prev_op,
              was_reset>>
vars == <<pc, sharedVars, tabVars, runVars, deepVars>>

(***************************************************************************)
(* Hyperparameters and environment of the tabular script.                  *)
(***************************************************************************)
Pct == 100
learning_rate == 1                \* 0.01, in hundredths
discount_rate == 99               \* 0.99, in hundredths
QScale == Pct * Pct
optimazeRewardMultiplier == 2
discretize_array == <<2, 2>>      \* [0.1, 0.01] in half-bin units
\* env.observation_space: a reduced space of the shape of MountainCar-v0's
\* (which is [-1.2, -0.07]..[0.6, 0.07], a 19 x 15 table): 5 x 3 cells here.
observation_space_low == <<-4, -2>>
observation_space_high == <<4, 2>>
action_space_n == 3

\* How far outside the declared bounds a probed observation may lie.
OutMargin == 3
MaxBucket == 5

Abs(x) == IF x < 0 THEN -x ELSE x

\* np.round(n / d, 0) for integers n and d # 0: nearest integer, ties to even.
RoundHalfEven(n, d) ==
    LET nn == IF d < 0 THEN -n ELSE n
        dd == IF d < 0 THEN -d ELSE d
        q == nn \div dd
        r == nn % dd
    IN  IF 2 * r < dd THEN q
        ELSE IF 2 * r > dd THEN q + 1
        ELSE IF q % 2 = 0 THEN q ELSE q + 1

\* Qtable.__init__: extent of each observation dimension, then the actions.
TableShape ==
    [d \in 1..2 |->
        RoundHalfEven(observation_space_high[d] - observation_space_low[d],
                      buckets[d]) + 1]

TableIndex ==
    (0..(TableShape[1] - 1)) \X (0..(TableShape[2] - 1)) \X (0..(action_space_n - 1))

ZeroTable == [c \in TableIndex |-> 0]

\* Qtable.discretizeState rounding every quotient up (a mutant).
discretizeStateCeil(s) ==
    [d \in 1..2 |->
        -((observation_space_low[d] - s[d]) \div buckets[d])]

\* Qtable.discretizeState: round((state - low) / discretize_array), no clamp.
discretizeState(s) ==
    [d \in 1..2 |->
        RoundHalfEven(s[d] - observation_space_low[d], buckets[d])]

\* numpy indexing of one axis of length n: a negative index counts from the end.
PyIndex(i, n) == IF i < 0 THEN i + n ELSE i

\* numpy raises IndexError for an index outside [-n, n).
Raises(dsv) ==
    \E d \in 1..2 : dsv[d] < -TableShape[d] \/ dsv[d] >= TableShape[d]

Cell(dsv, a) == <<PyIndex(dsv[1], TableShape[1]), PyIndex(dsv[2], TableShape[2]), a>>

Max3(x, y, z) ==
    LET m == IF x >= y THEN x ELSE y IN IF m >= z THEN m ELSE z

\* np.max(self.qTable[ds[0], ds[1]])
RowMax(q, dsv) == Max3(q[Cell(dsv, 0)], q[Cell(dsv, 1)], q[Cell(dsv, 2)])

\* Qtable.__call__: np.argmax over the action axis, first maximum wins.
SelectAction(q, s) ==
    LET dsv == discretizeState(s)
        m == RowMax(q, dsv)
    IN  CHOOSE a \in 0..(action_space_n - 1) :
            /\ q[Cell(dsv, a)] = m
            /\ \A b \in 0..(a - 1) : q[Cell(dsv, b)] # m

\* Qtable.optimazeReward without the offset of one (a mutant).
Qtable_optimazeRewardNoOffset(flag, r, ds2) ==
    IF ~flag THEN r
    ELSE ds2[1] * optimazeRewardMultiplier - (TableShape[1] * optimazeRewardMultiplier)

\* Qtable.optimazeReward: the reward used by train (whole number, not scaled).
Qtable_optimazeReward(flag, r, ds2) ==
    IF ~flag THEN r
    ELSE ds2[1] * optimazeRewardMultiplier - (TableShape[1] * optimazeRewardMultiplier + 1)

\* The bootstrapped target of Qtable.train, in fixed point.
TrainTarget(q, flag, r, s2) ==
    LET ds2 == discretizeState(s2)
    IN  Qtable_optimazeReward(flag, r, ds2) * QScale
          + RoundHalfEven(discount_rate * RowMax(q, ds2), Pct)

\* Qtable.train with the full target assigned (a mutant: learning rate lost).
TrainOvershoot(q, flag, s, a, r, s2) ==
    LET ds1 == discretizeState(s)
        delta == 2 * (TrainTarget(q, flag, r, s2) - q[Cell(ds1, a)])
    IN  [q EXCEPT ![Cell(ds1, a)] = @ + delta]

\* Qtable.train: Q[s,a] += learning_rate * (r' + discount_rate * max Q[s'] - Q[s,a])
Train(q, flag, s, a, r, s2) ==
    LET ds1 == discretizeState(s)
        delta == RoundHalfEven(
                    learning_rate * (TrainTarget(q, flag, r, s2) - q[Cell(ds1, a)]),
                    Pct)
    IN  [q EXCEPT ![Cell(ds1, a)] = @ + delta]

\* Qtable.updateDone blending the reward into the old estimate (a mutant).
UpdateDoneBlend(q, s, a, r) ==
    LET dsv == discretizeState(s)
    IN  [q EXCEPT ![Cell(dsv, a)] =
            @ + RoundHalfEven(learning_rate * (r * QScale - @), Pct)]

\* Qtable.updateDone: Q[s,a] = reward
UpdateDone(q, s, a, r) ==
    LET dsv == discretizeState(s)
    IN  [q EXCEPT ![Cell(dsv, a)] = r * QScale]

(***************************************************************************)
(* The deep script's hyperparameters.  The cadences and schedule lengths   *)
(* are scaled down so that a run of a few episodes passes through them.    *)
(***************************************************************************)
actions == 4
frames_to_skip == 4
frames_memory_length == 2
skip_action == 1                  \* the action of env.step(1) on a skipped step
gamma == 99                       \* 0.99, in hundredths
dqn_max_episodes == 3             \* max_episodes (5000; 30 in the demo block)
episodes_learning_batch == 2      \* 64 in the source
warmup_frames == 5                \* the literal 10000 of the epsilon decay
epsilon_start == 3                \* epsilon = 1 is 4000 decay units in the source
epsilon_terminal_value == 2       \* 0.01 is 40 decay units in the source
\* The environment truncates an episode at this many steps (its frame limit).
MaxEnvSteps == 5

(***************************************************************************)
(* The tabular script's schedule, scaled down likewise.                    *)
(***************************************************************************)
max_episodes == 4                 \* 10000 in the source
\* TimeLimit of the environment (200 steps for MountainCar-v0).
max_episode_steps == 2
\* MountainCar's goal_position (0.5, one bin below the upper bound 0.6).
report_interval == 1               \* the statistics of line 132 are computed
                                  \* every 50th episode; one episode here
                                  \* stands for 50 of them
min_episodes_criterion == 2 * report_interval
reward_threshold == -max_episode_steps
demo_episodes == 2                \* range(10) in the source
goal_position == observation_space_high[1] - discretize_array[1]

(***************************************************************************)
(* Values of the variables a specification does not use.                   *)
(***************************************************************************)
SharedIdle ==
    /\ action = 0 /\ reward = 0
    /\ terminated = FALSE /\ truncated = FALSE /\ done = FALSE
    /\ episode = 0 /\ env_steps = 0

\* Lines 27-34 and the demonstration loop not started.
RunIdle ==
    /\ episodes_reward = <<>>
    /\ mean_reward = <<0, 1>>          \* mean_reward = 0
    /\ early_mean_high = FALSE /\ broke = FALSE
    /\ demo_i = 0 /\ stepped_after_terminated = FALSE

TabularIdle ==
    /\ buckets = discretize_array
    /\ RunIdle
    /\ qTable = ZeroTable /\ qBefore = ZeroTable
    /\ state = observation_space_low /\ next_state = observation_space_low
    /\ stateBefore = observation_space_low
    /\ episode_reward = 0 /\ epsillon = 0
    /\ optimazeReward = TRUE /\ ds = <<0, 0>>
    /\ episode_max_x = observation_space_low[1]

DeepIdle ==
    /\ step = 0 /\ total_frames = 0 /\ epsilon = 0 /\ train_model = FALSE
    /\ onlineW = 0 /\ cloneW = 0 /\ frames_state = <<>>
    /\ trained = FALSE /\ synced = FALSE /\ syncs_in_episode = 0
    /\ episode_over = FALSE /\ stepped_after_over = FALSE
    /\ onlineStart = 0 /\ onlineAtSync = 0
    /\ env_action = 0 /\ consulted = FALSE /\ train_input = <<>>
    /\ frames_before = <<>> /\ frame_in = <<0, 0>> /\ tensor = <<>>
    /\ prev_op = "none" /\ was_reset = FALSE

(***************************************************************************)
(* SpecDisc: Qtable.discretizeState applied to observations inside and     *)
(* slightly outside the declared bounds.                                   *)
(***************************************************************************)
\* Positive bin widths a run may be configured with.
BucketWidths == 1..MaxBucket

ProbeObs ==
    ((observation_space_low[1] - OutMargin)..(observation_space_high[1] + OutMargin))
        \X ((observation_space_low[2] - OutMargin)..(observation_space_high[2] + OutMargin))

InitDisc ==
    /\ pc = "disc_ready"
    /\ state \in ProbeObs
    /\ buckets \in BucketWidths \X BucketWidths
    /\ RunIdle
    /\ qTable = ZeroTable /\ qBefore = ZeroTable
    /\ next_state = observation_space_low /\ stateBefore = observation_space_low
    /\ episode_reward = 0 /\ epsillon = 0
    /\ optimazeReward = TRUE /\ ds = <<0, 0>>
    /\ episode_max_x = observation_space_low[1]
    /\ SharedIdle /\ DeepIdle

CallDiscretize ==
    /\ pc = "disc_ready"
    /\ ds' = discretizeState(state)
    /\ pc' = "disc_done"
    /\ UNCHANGED <<qTable, qBefore, state, next_state, stateBefore, episode_reward,
                   epsillon, optimazeReward, episode_max_x>>
    /\ UNCHANGED <<sharedVars, runVars, deepVars>>

NextDisc == CallDiscretize

SpecDisc == InitDisc /\ [][NextDisc]_vars

(***************************************************************************)
(* SpecQ: Qtable.train and Qtable.updateDone applied once to a table, a    *)
(* transition and a shaping flag drawn from bounded sets.                  *)
(***************************************************************************)
\* Observations inside the bounds; <<0, 0>> and <<1, 0>> share a cell.
SampleObs == {observation_space_low, <<0, 0>>, <<1, 0>>, observation_space_high}

\* Whole-number table values (before scaling) and rewards the calls are given.
QVals == {-11, -1, 0}
Rewards == {-1, 0}

InitQ ==
    /\ pc = "q_ready"
    /\ buckets = discretize_array
    /\ RunIdle
    /\ state \in SampleObs
    /\ next_state \in SampleObs
    /\ action \in 0..(action_space_n - 1)
    /\ reward \in Rewards
    /\ optimazeReward \in BOOLEAN
    /\ \E v \in QVals, row \in [0..(action_space_n - 1) -> QVals] :
          qTable = [c \in TableIndex |->
                      IF c = Cell(discretizeState(state), action) THEN v * QScale
                      ELSE IF \E a \in 0..(action_space_n - 1) :
                                 c = Cell(discretizeState(next_state), a)
                           THEN row[c[3]] * QScale
                           ELSE 0]
    /\ qBefore = ZeroTable
    /\ stateBefore = observation_space_low
    /\ terminated = FALSE /\ truncated = FALSE /\ done = FALSE
    /\ episode = 0 /\ env_steps = 0
    /\ episode_reward = 0 /\ epsillon = 0
    /\ ds = <<0, 0>>
    /\ episode_max_x = observation_space_low[1]
    /\ DeepIdle

CallTrain ==
    /\ pc = "q_ready"
    /\ ~Raises(discretizeState(state)) /\ ~Raises(discretizeState(next_state))
    /\ qBefore' = qTable
    /\ qTable' = Train(qTable, optimazeReward, state, action, reward, next_state)
    /\ pc' = "q_trained"
    /\ UNCHANGED <<state, next_state, stateBefore, episode_reward, epsillon,
                   optimazeReward, episode_max_x, ds>>
    /\ UNCHANGED <<sharedVars, runVars, deepVars>>

CallUpdateDone ==
    /\ pc = "q_ready"
    /\ ~Raises(discretizeState(state))
    /\ qBefore' = qTable
    /\ qTable' = UpdateDone(qTable, state, action, reward)
    /\ pc' = "q_done_updated"
    /\ UNCHANGED <<state, next_state, stateBefore, episode_reward, epsillon,
                   optimazeReward, episode_max_x, ds>>
    /\ UNCHANGED <<sharedVars, runVars, deepVars>>

NextQ == CallTrain \/ CallUpdateDone

SpecQ == InitQ /\ [][NextQ]_vars

(***************************************************************************)
(* The tabular script: the training loop of mountainCar.qLearning.py.      *)
(***************************************************************************)
Clip(x, lo, hi) == IF x < lo THEN lo ELSE IF x > hi THEN hi ELSE x
MaxOf(x, y) == IF x >= y THEN x ELSE y

\* env.reset of the reduced MountainCar: a start position in the valley, at rest.
ResetObs == {<<1, 0>>}

\* env.step of the reduced MountainCar (flat track): the action accelerates by
\* -1, 0 or +1, velocity and position are clipped to the observation space, and
\* the car stops at the left wall.
EnvStepObs(s, a) ==
    LET v1 == Clip(s[2] + (a - 1), observation_space_low[2], observation_space_high[2])
        p1 == Clip(s[1] + v1, observation_space_low[1], observation_space_high[1])
        v2 == IF p1 = observation_space_low[1] /\ v1 < 0 THEN 0 ELSE v1
    IN  <<p1, v2>>

\* MountainCar's termination: the goal is reached moving right.
EnvTerminated(s2) == s2[1] >= goal_position /\ s2[2] >= 0

\* The exploration gate `epsillon > 0 and np.random.random() < epsillon` without
\* its first conjunct (a mutant).
MayExploreUnguarded(e) == TRUE

\* The exploration gate can pass: epsillon > 0 (and the draw falls below it).
MayExplore(e) == e > 0

\* The gate can fail: epsillon <= 0, or the draw in [0, 1) is not below epsillon.
MayExploit(e) == e <= 0 \/ e < max_episodes

InitTab ==
    /\ pc = "t_episode_start"
    /\ buckets = discretize_array
    /\ RunIdle
    /\ qTable = ZeroTable /\ qBefore = ZeroTable
    /\ state = observation_space_low /\ next_state = observation_space_low
    /\ stateBefore = observation_space_low
    /\ episode_reward = 0
    /\ epsillon = max_episodes          \* epsillon = 1 = max_episodes * epsillon_decay
    /\ optimazeReward \in BOOLEAN
    /\ ds = <<0, 0>>
    /\ episode_max_x = observation_space_low[1]
    /\ SharedIdle /\ DeepIdle

\* Lines 98-102: the head of the episode loop.
TabReset ==
    /\ pc = "t_episode_start"
    /\ episode_reward' = 0
    /\ episode_max_x' = observation_space_low[1]
    /\ done' = FALSE
    /\ state' \in ResetObs
    /\ env_steps' = 0
    /\ pc' = "t_loop"
    /\ UNCHANGED <<qTable, qBefore, next_state, stateBefore, epsillon,
                   optimazeReward, ds>>
    /\ UNCHANGED <<action, reward, terminated, truncated, episode>>
    /\ UNCHANGED <<runVars, deepVars>>

\* Lines 105-127: one iteration of the step loop.
TabStep ==
    /\ pc = "t_loop"
    /\ done = FALSE
    /\ \E explore \in BOOLEAN, sampled \in 0..(action_space_n - 1) :
        /\ IF explore THEN MayExplore(epsillon) ELSE MayExploit(epsillon)
        /\ ~explore => sampled = 0
        /\ IF ~explore /\ Raises(discretizeState(state))
           THEN \* qLearning(state) raises IndexError before env.step
                /\ pc' = "t_index_error"
                /\ UNCHANGED <<qTable, qBefore, state, next_state, stateBefore,
                               episode_reward, epsillon, episode_max_x>>
                /\ UNCHANGED <<action, reward, terminated, truncated, done,
                               env_steps>>
           ELSE
             LET a == IF explore THEN sampled ELSE SelectAction(qTable, state)
                 s2 == EnvStepObs(state, a)
                 r == -1
                 term == EnvTerminated(s2)
                 trunc == env_steps + 1 >= max_episode_steps
                 raises == Raises(discretizeState(state)) \/ Raises(discretizeState(s2))
                 q1 == Train(qTable, optimazeReward, state, a, r, s2)
                 q2 == IF term THEN UpdateDone(q1, s2, a, 0) ELSE q1
             IN  /\ action' = a
                 /\ epsillon' = IF explore THEN epsillon - 1 ELSE epsillon
                 /\ next_state' = s2
                 /\ reward' = r
                 /\ terminated' = term
                 /\ truncated' = trunc
                 /\ env_steps' = env_steps + 1
                 /\ IF raises
                    THEN \* qLearning.train raises IndexError at its table access
                         /\ done' = term
                         /\ pc' = "t_index_error"
                         /\ UNCHANGED <<qTable, qBefore, state, stateBefore,
                                        episode_reward, episode_max_x>>
                    ELSE /\ qBefore' = qTable
                         /\ qTable' = q2
                         /\ episode_reward' = episode_reward + r
                         /\ episode_max_x' = MaxOf(episode_max_x, s2[1])
                         /\ stateBefore' = state
                         /\ state' = s2
                         /\ done' = (term \/ trunc \/ s2[1] >= observation_space_high[1])
                         /\ pc' = IF done' THEN "t_episode_end" ELSE "t_loop"
    /\ UNCHANGED <<optimazeReward, ds, episode>>
    /\ UNCHANGED <<runVars, deepVars>>

RECURSIVE SeqSum(_)
SeqSum(seq) == IF seq = <<>> THEN 0 ELSE seq[1] + SeqSum(Tail(seq))

\* The reward trace without its maxlen (a mutant): nothing is dropped.
RewardTraceAppendUnbounded(trace, r) == Append(trace, r)

\* episodes_reward.append on deque(maxlen=min_episodes_criterion)
RewardTraceAppend(trace, r) ==
    IF Len(trace) < min_episodes_criterion
    THEN Append(trace, r)
    ELSE Append(Tail(trace), r)

\* statistics.mean(episodes_reward), as <<sum, count>>
Mean(trace) == <<SeqSum(trace), Len(trace)>>

\* mean_reward > reward_threshold
MeanAbove(m) == m[1] > reward_threshold * m[2]

\* The break condition waiting for max_episodes episodes (a mutant).
EarlyStopLate(m, ep) == MeanAbove(m) /\ ep >= max_episodes

\* Line 142: the break condition.
EarlyStop(m, ep) == MeanAbove(m) /\ ep >= min_episodes_criterion

\* Line 132: the episodes that compute the statistics.
Reports(ep) == ep % report_interval = 0 /\ ep > 0

\* Lines 129-143 and the loop's increment: the episode is closed.  The
\* max_x statistics and the two lists kept for the plot are left out: nothing
\* reads them but the plot.
TabEpisodeEnd ==
    /\ pc = "t_episode_end"
    /\ LET trace == RewardTraceAppend(episodes_reward, episode_reward)
           m == IF Reports(episode) THEN Mean(trace) ELSE mean_reward
           stop == Reports(episode) /\ EarlyStop(m, episode)
       IN  /\ episodes_reward' = trace
           /\ mean_reward' = m
           /\ early_mean_high' =
                 (early_mean_high \/ (Reports(episode) /\ MeanAbove(m)
                                          /\ episode < min_episodes_criterion))
           /\ IF stop
              THEN episode' = episode /\ pc' = "t_break"
              ELSE /\ episode' = episode + 1
                   /\ pc' = IF episode + 1 < max_episodes
                            THEN "t_episode_start" ELSE "t_finished"
    /\ UNCHANGED <<action, reward, terminated, truncated, done, env_steps>>
    /\ UNCHANGED <<buckets, broke, demo_i, stepped_after_terminated>>
    /\ UNCHANGED <<tabVars, deepVars>>

\* Lines 145-157: the report after the loop.
FinalReport ==
    /\ pc \in {"t_break", "t_finished"}
    /\ broke' = (pc = "t_break")
    /\ pc' = IF MeanAbove(mean_reward) THEN "t_solved" ELSE "t_not_solved"
    /\ UNCHANGED <<buckets, episodes_reward, mean_reward, early_mean_high, demo_i,
                   stepped_after_terminated>>
    /\ UNCHANGED <<sharedVars, tabVars, deepVars>>

NextTab == TabReset \/ TabStep \/ TabEpisodeEnd \/ FinalReport

\* Lines 163-174: the demonstration loop, on tables whose every row holds the
\* same three values, so that the greedy policy takes one action everywhere.
DemoRows == [0..(action_space_n - 1) -> {-2, -1, 0}]

InitDemo ==
    /\ pc = "demo_start"
    /\ buckets = discretize_array
    /\ RunIdle
    /\ \E row \in DemoRows : qTable = [c \in TableIndex |-> row[c[3]] * QScale]
    /\ qBefore = ZeroTable
    /\ state = observation_space_low /\ next_state = observation_space_low
    /\ stateBefore = observation_space_low
    /\ episode_reward = 0 /\ epsillon = 0
    /\ optimazeReward = TRUE /\ ds = <<0, 0>>
    /\ episode_max_x = observation_space_low[1]
    /\ SharedIdle /\ DeepIdle

\* Lines 166-168: the head of the demonstration loop.
DemoReset ==
    /\ pc = "demo_start"
    /\ demo_i < demo_episodes
    /\ state' \in ResetObs
    /\ done' = FALSE
    /\ env_steps' = 0
    /\ terminated' = FALSE
    /\ pc' = "demo_loop"
    /\ UNCHANGED <<qTable, qBefore, next_state, stateBefore, episode_reward,
                   epsillon, optimazeReward, episode_max_x, ds>>
    /\ UNCHANGED <<action, reward, truncated, episode>>
    /\ UNCHANGED <<runVars, deepVars>>

\* Lines 170-172: one iteration of the demonstration's step loop.  The step
\* result is unpacked as state, reward, truncated, done, info: the variable
\* truncated receives the environment's terminated flag and done its truncated
\* flag.
DemoStep ==
    /\ pc = "demo_loop"
    /\ LET a == SelectAction(qTable, state)
           s2 == EnvStepObs(state, a)
           term == EnvTerminated(s2)
           trunc == env_steps + 1 >= max_episode_steps
       IN  /\ action' = a
           /\ state' = s2
           /\ reward' = -1
           /\ truncated' = term
           /\ done' = trunc
           /\ terminated' = term
           /\ env_steps' = env_steps + 1
           /\ stepped_after_terminated' = (stepped_after_terminated \/ terminated)
           /\ demo_i' = IF trunc THEN demo_i + 1 ELSE demo_i
           /\ pc' = IF ~trunc THEN "demo_loop"
                    ELSE IF demo_i + 1 < demo_episodes THEN "demo_start"
                    ELSE "demo_finished"
    /\ UNCHANGED <<qTable, qBefore, next_state, stateBefore, episode_reward,
                   epsillon, optimazeReward, episode_max_x, ds, episode>>
    /\ UNCHANGED <<buckets, episodes_reward, mean_reward, early_mean_high, broke>>
    /\ UNCHANGED deepVars

NextDemo == DemoReset \/ DemoStep

SpecDemo == InitDemo /\ [][NextDemo]_vars

SpecTab == InitTab /\ [][NextTab]_vars

(***************************************************************************)
(* SpecConfig: the tabular script from its start, for every                *)
(* discretize_array of a bounded set, through the construction of the      *)
(* Q-table and the first episode.                                          *)
(***************************************************************************)
\* Bucket sizes a configuration may hold, malformed ones included.
ConfigWidths == (-MaxBucket)..MaxBucket

\* No table: Qtable(env) has not been constructed.
NoTable == <<>>

InitConfig ==
    /\ pc = "c_start"
    /\ buckets \in ConfigWidths \X ConfigWidths
    /\ RunIdle
    /\ qTable = NoTable /\ qBefore = NoTable
    /\ state = observation_space_low /\ next_state = observation_space_low
    /\ stateBefore = observation_space_low
    /\ episode_reward = 0
    /\ epsillon = max_episodes
    /\ optimazeReward = TRUE
    /\ ds = <<0, 0>>
    /\ episode_max_x = observation_space_low[1]
    /\ SharedIdle /\ DeepIdle

\* np.zeros(shape) raises ValueError for a negative extent.  A bucket size of 0
\* divides to inf, whose cast to int is not defined; the builds give an extent
\* np.zeros refuses (negative, or too large to allocate).
ZerosRaises ==
    \/ \E d \in 1..2 : buckets[d] = 0
    \/ \E d \in 1..2 : TableShape[d] < 0

\* Line 91: qLearning = Qtable(env)
Construct ==
    /\ pc = "c_start"
    /\ IF ZerosRaises
       THEN pc' = "c_value_error" /\ UNCHANGED <<qTable, qBefore>>
       ELSE pc' = "t_episode_start" /\ qTable' = ZeroTable /\ qBefore' = ZeroTable
    /\ UNCHANGED <<state, next_state, stateBefore, episode_reward, epsillon,
                   optimazeReward, episode_max_x, ds>>
    /\ UNCHANGED <<sharedVars, runVars, deepVars>>

NextConfig == Construct \/ TabReset \/ TabStep

SpecConfig == InitConfig /\ [][NextConfig]_vars

(***************************************************************************)
(* The deep script: Model, FramesState and the training loop of            *)
(* atariBreakout.py.  A network's parameters are one integer w and its     *)
(* largest action value on any input is w; an optimizer step moves the     *)
(* online parameters one unit down the gradient of the loss.  The greedy   *)
(* action, which depends on the network's unmodelled outputs, is any       *)
(* action.  Progress reporting and plotting are not modelled.              *)
(***************************************************************************)
InitWeights == {0, 1}
DeepRewards == {0, 1}
\* Raw observations: <<margin rows, playfield rows>>.
Observations == {<<0, 1>>, <<1, 1>>, <<1, 2>>}
ZeroFrame == 0

Sign(x) == IF x > 0 THEN 1 ELSE IF x < 0 THEN -1 ELSE 0

\* A deque without its maxlen (a mutant): nothing is evicted.
DequeAppendUnbounded(fs, x) == Append(fs, x)

\* deque(maxlen=frames_memory_length).append
DequeAppend(fs, x) ==
    IF Len(fs) >= frames_memory_length THEN Append(Tail(fs), x) ELSE Append(fs, x)

\* observation[33:-17] resized to 80 x 80: the margins are cropped away and the
\* playfield is what the frame shows.
Processed(observation) == observation[2]

\* FramesState.addFrame: the processed observation is appended.
addFrame(fs, observation) == DequeAppend(fs, Processed(observation))

\* deque.clear
clear(fs) == <<>>

\* FramesState.reset appending one zero frame to the uncleared stack (a mutant).
ResetKeepsLatest(fs) == DequeAppend(fs, ZeroFrame)

\* FramesState.reset: clear, then two zero frames.
reset(fs) == DequeAppend(DequeAppend(clear(fs), ZeroFrame), ZeroFrame)

\* FramesState.getTensor: the two frames under a batch axis of length 1.
getTensor(fs) == << <<fs[1], fs[2]>> >>

\* tf.reduce_max of a network's action values on a batch of one time series.
QMax(w, time_series) == w

\* Model.train, the online parameters: one step toward
\* reward + gamma * max clone(x), through the loss on max model(x).
TrainOnline(online, clone, r, time_series) ==
    online + Sign(Pct * r + gamma * QMax(clone, time_series)
                    - Pct * QMax(online, time_series))

\* Model.train applying the step to the clone as well (a mutant).
TrainCloneStepped(online, clone, r, time_series) ==
    clone + Sign(Pct * r + gamma * QMax(clone, time_series)
                    - Pct * QMax(online, time_series))

\* Model.train, the clone's parameters: not among the variables it updates.
TrainClone(online, clone, r, time_series) == clone

\* Model.update_weights: self.model.set_weights(self.clone.get_weights())
UpdateWeightsOnline(online, clone) == clone
UpdateWeightsClone(online, clone) == clone

\* total_frames += 1, kept only up to just above the warm-up it is compared to.
NextTotalFrames(tf) == IF tf > warmup_frames THEN tf ELSE tf + 1

\* The epsilon decay without its warm-up condition (a mutant).
DecayEpsilonNoWarmup(e, tf) ==
    IF e > 0
    THEN IF e - 1 < epsilon_terminal_value THEN 0 ELSE e - 1
    ELSE e

\* Lines 213-216: the epsilon decay at the end of an episode.
DecayEpsilon(e, tf) ==
    IF e > 0 /\ tf > warmup_frames
    THEN IF e - 1 < epsilon_terminal_value THEN 0 ELSE e - 1
    ELSE e

\* The train gate of a skipped step gated by train_model as well (a mutant).
SkipTrainsIfEnabled(r, enabled) == r > 0 /\ enabled

\* Line 181: a skipped step trains when its reward is positive.
SkipTrains(r, enabled) == r > 0

\* The update_weights gate of line 204.
SyncDue(ep) == ep > 1 /\ ep % episodes_learning_batch = 0

InitDeep ==
    /\ pc = "d_episode_start"
    /\ train_model \in BOOLEAN
    /\ epsilon \in {0, epsilon_start}
    /\ onlineW \in InitWeights
    /\ cloneW \in InitWeights
    /\ onlineStart = onlineW
    /\ onlineAtSync = onlineW
    /\ step = 0 /\ total_frames = 0
    /\ frames_state = <<>>
    /\ trained = FALSE /\ synced = FALSE /\ syncs_in_episode = 0
    /\ episode_over = FALSE /\ stepped_after_over = FALSE
    /\ env_action = 0 /\ consulted = FALSE /\ train_input = <<>>
    /\ frames_before = <<>> /\ frame_in = <<0, 0>> /\ tensor = <<>>
    /\ prev_op = "none" /\ was_reset = FALSE
    /\ SharedIdle /\ TabularIdle

\* Lines 169-174: the head of the episode loop.
DeepReset ==
    /\ pc = "d_episode_start"
    /\ env_steps' = 0
    /\ frames_state' = reset(frames_state)
    /\ frames_before' = frames_state
    /\ was_reset' = TRUE
    /\ done' = FALSE
    /\ step' = 0
    /\ trained' = FALSE /\ synced' = FALSE /\ syncs_in_episode' = 0
    /\ episode_over' = FALSE /\ stepped_after_over' = FALSE
    /\ consulted' = FALSE /\ train_input' = <<>>
    /\ pc' = "d_loop"
    /\ UNCHANGED <<action, reward, terminated, truncated, episode>>
    /\ UNCHANGED <<total_frames, epsilon, train_model, onlineW, cloneW,
                   onlineStart, onlineAtSync, env_action, frame_in, tensor, prev_op>>
    /\ UNCHANGED <<tabVars, runVars>>

\* Lines 176-184: an iteration that skips the policy (step % frames_to_skip != 0).
DeepSkipStep ==
    /\ pc = "d_loop"
    /\ done = FALSE
    /\ (step + 1) % frames_to_skip # 0
    /\ \E r \in DeepRewards, term \in BOOLEAN :
        /\ total_frames' = NextTotalFrames(total_frames)
        /\ step' = step + 1
        /\ env_steps' = env_steps + 1
        /\ reward' = r
        /\ terminated' = term
        /\ truncated' = (env_steps + 1 >= MaxEnvSteps)
        /\ stepped_after_over' = (stepped_after_over \/ episode_over)
        /\ episode_over' = (episode_over \/ term \/ truncated')
        /\ trained' = SkipTrains(r, train_model)
        /\ train_input' = IF SkipTrains(r, train_model)
                          THEN getTensor(frames_state) ELSE <<>>
        /\ onlineW' = IF SkipTrains(r, train_model)
                      THEN TrainOnline(onlineW, cloneW, r, getTensor(frames_state))
                      ELSE onlineW
        /\ cloneW' = IF SkipTrains(r, train_model)
                     THEN TrainClone(onlineW, cloneW, r, getTensor(frames_state))
                     ELSE cloneW
    /\ env_action' = skip_action
    /\ consulted' = FALSE
    /\ frames_before' = frames_state
    /\ synced' = FALSE
    /\ UNCHANGED <<pc, action, done, episode, epsilon, train_model, frames_state,
                   syncs_in_episode, onlineStart, onlineAtSync, frame_in, tensor,
                   prev_op, was_reset>>
    /\ UNCHANGED <<tabVars, runVars>>

\* Lines 176-178 and 186-205: an iteration that consults the policy.
DeepPolicyStep ==
    /\ pc = "d_loop"
    /\ done = FALSE
    /\ (step + 1) % frames_to_skip = 0
    /\ \E a \in 0..(actions - 1), observation \in Observations,
          r \in DeepRewards, term \in BOOLEAN :
        LET trunc == env_steps + 1 >= MaxEnvSteps
            w1 == IF train_model
                  THEN TrainOnline(onlineW, cloneW, r, getTensor(frames_state))
                  ELSE onlineW
            c1 == IF train_model
                  THEN TrainClone(onlineW, cloneW, r, getTensor(frames_state))
                  ELSE cloneW
        IN  /\ total_frames' = NextTotalFrames(total_frames)
            /\ step' = step + 1
            /\ env_steps' = env_steps + 1
            /\ action' = a
            /\ reward' = r
            /\ terminated' = term
            /\ truncated' = trunc
            /\ done' = (term \/ trunc)
            /\ stepped_after_over' = (stepped_after_over \/ episode_over)
            /\ episode_over' = (episode_over \/ term \/ trunc)
            /\ trained' = train_model
            /\ train_input' = IF train_model THEN getTensor(frames_state) ELSE <<>>
            /\ env_action' = a
            /\ consulted' = TRUE
            /\ frames_before' = frames_state
            /\ frame_in' = observation
            /\ frames_state' = addFrame(frames_state, observation)
            /\ synced' = SyncDue(episode)
            /\ syncs_in_episode' =
                  IF SyncDue(episode) /\ syncs_in_episode < 2
                  THEN syncs_in_episode + 1 ELSE syncs_in_episode
            /\ onlineAtSync' = IF SyncDue(episode) THEN w1 ELSE onlineAtSync
            /\ onlineW' = IF SyncDue(episode) THEN UpdateWeightsOnline(w1, c1) ELSE w1
            /\ cloneW' = IF SyncDue(episode) THEN UpdateWeightsClone(w1, c1) ELSE c1
            /\ pc' = IF term \/ trunc THEN "d_episode_end" ELSE "d_loop"
    /\ UNCHANGED <<episode, epsilon, train_model, onlineStart, tensor, prev_op,
                   was_reset>>
    /\ UNCHANGED <<tabVars, runVars>>

\* Lines 212-216 and the loop's increment: the episode is closed.
DeepEpisodeEnd ==
    /\ pc = "d_episode_end"
    /\ epsilon' = DecayEpsilon(epsilon, total_frames)
    /\ episode' = episode + 1
    /\ pc' = IF episode + 1 < dqn_max_episodes THEN "d_episode_start" ELSE "d_finished"
    /\ UNCHANGED <<action, reward, terminated, truncated, done, env_steps>>
    /\ UNCHANGED <<step, total_frames, train_model, onlineW, cloneW, frames_state,
                   trained, synced, syncs_in_episode, episode_over,
                   stepped_after_over, onlineStart, onlineAtSync, env_action,
                   consulted, train_input, frames_before, frame_in, tensor,
                   prev_op, was_reset>>
    /\ UNCHANGED <<tabVars, runVars>>

NextDeep == DeepReset \/ DeepSkipStep \/ DeepPolicyStep \/ DeepEpisodeEnd

SpecDeep == InitDeep /\ [][NextDeep]_vars

(***************************************************************************)
(* SpecFrames: reset, addFrame and getTensor called on a FramesState in    *)
(* any order, from its construction.  SpecFramesLoop adds the deep         *)
(* training loop's own use of its FramesState.                             *)
(***************************************************************************)
InitFrames ==
    /\ pc = "f_new"
    /\ step = 0 /\ total_frames = 0 /\ epsilon = 0 /\ train_model = FALSE
    /\ onlineW = 0 /\ cloneW = 0 /\ frames_state = <<>>
    /\ trained = FALSE /\ synced = FALSE /\ syncs_in_episode = 0
    /\ episode_over = FALSE /\ stepped_after_over = FALSE
    /\ onlineStart = 0 /\ onlineAtSync = 0
    /\ env_action = 0 /\ consulted = FALSE /\ train_input = <<>>
    /\ frames_before = <<>> /\ frame_in = <<0, 0>> /\ tensor = <<>>
    /\ prev_op = "none" /\ was_reset = FALSE
    /\ SharedIdle /\ TabularIdle

FramesDriverAt == pc \in {"f_new", "f_reset", "f_added", "f_tensor"}

FramesUnchanged ==
    UNCHANGED <<step, total_frames, epsilon, train_model, onlineW, cloneW, trained,
                synced, syncs_in_episode, episode_over, stepped_after_over,
                onlineStart, onlineAtSync, env_action, consulted, train_input>>

\* FramesState.reset()
CallReset ==
    /\ FramesDriverAt
    /\ frames_before' = frames_state
    /\ frames_state' = reset(frames_state)
    /\ was_reset' = TRUE
    /\ prev_op' = pc
    /\ pc' = "f_reset"
    /\ UNCHANGED <<frame_in, tensor>>
    /\ FramesUnchanged
    /\ UNCHANGED <<sharedVars, tabVars, runVars>>

\* FramesState.addFrame(observation)
CallAddFrame ==
    /\ FramesDriverAt
    /\ \E observation \in Observations :
        /\ frame_in' = observation
        /\ frames_state' = addFrame(frames_state, observation)
    /\ frames_before' = frames_state
    /\ prev_op' = pc
    /\ pc' = "f_added"
    /\ UNCHANGED <<tensor, was_reset>>
    /\ FramesUnchanged
    /\ UNCHANGED <<sharedVars, tabVars, runVars>>

\* FramesState.getTensor(), which raises on a stack of fewer than two frames.
CallGetTensor ==
    /\ FramesDriverAt
    /\ Len(frames_state) >= 2
    /\ tensor' = getTensor(frames_state)
    /\ prev_op' = pc
    /\ pc' = "f_tensor"
    /\ UNCHANGED <<frames_state, frames_before, frame_in, was_reset>>
    /\ FramesUnchanged
    /\ UNCHANGED <<sharedVars, tabVars, runVars>>

NextFrames == CallReset \/ CallAddFrame \/ CallGetTensor

SpecFrames == InitFrames /\ [][NextFrames]_vars

InitFramesLoop == InitFrames \/ InitDeep

NextFramesLoop ==
    \/ CallReset \/ CallAddFrame \/ CallGetTensor
    \/ DeepReset \/ DeepSkipStep \/ DeepPolicyStep \/ DeepEpisodeEnd

SpecFramesLoop == InitFramesLoop /\ [][NextFramesLoop]_vars

(***************************************************************************)
(* Spec: either script, run from its start.                                *)
(***************************************************************************)
Init == InitTab \/ InitDeep

Next ==
    \/ TabReset \/ TabStep \/ TabEpisodeEnd \/ FinalReport
    \/ DeepReset \/ DeepSkipStep \/ DeepPolicyStep \/ DeepEpisodeEnd

Spec == Init /\ [][Next]_vars

(***************************************************************************)
(* Claims about the pure operations of Qtable.                             *)
(***************************************************************************)
\* C1: every component of the index returned by discretizeState lies in
\* [0, extent) of its dimension, also for observations slightly outside the
\* declared bounds (out-of-range indices are clamped).
C1_IndexWithinExtent ==
    pc = "disc_done" =>
        \A d \in 1..2 : ds[d] >= 0 /\ ds[d] < TableShape[d]

TrainedCell == Cell(discretizeState(state), action)
TargetBefore == TrainTarget(qBefore, optimazeReward, reward, next_state)

MovedStrictlyToward(old, new, t) ==
    /\ Abs(new - t) < Abs(old - t)
    /\ (old <= t => (old <= new /\ new <= t))
    /\ (old >= t => (old >= new /\ new >= t))

\* C9 (as claimed): after train, Q[s,a] has moved strictly toward the target
\* T = r' + discount_rate * max Q[s'] computed on the table before the update,
\* without overshooting it, for every table content.
C9_AlwaysStrictlyToward ==
    pc = "q_trained" =>
        MovedStrictlyToward(qBefore[TrainedCell], qTable[TrainedCell], TargetBefore)

\* C9 (amended): when Q[s,a] differs from the target T before the update,
\* train moves it strictly toward T without overshooting; when Q[s,a] already
\* equals T, train leaves it unchanged.
C9_TowardUnlessAtTarget ==
    pc = "q_trained" =>
        IF qBefore[TrainedCell] # TargetBefore
        THEN MovedStrictlyToward(qBefore[TrainedCell], qTable[TrainedCell], TargetBefore)
        ELSE qTable[TrainedCell] = qBefore[TrainedCell]

\* C9 witness: train has run on a transition whose next state falls in the
\* cell of the state, with the entry away from its target.
C9_Witness ==
    /\ pc = "q_trained"
    /\ discretizeState(state) = discretizeState(next_state)
    /\ state # next_state
    /\ qBefore[TrainedCell] # TargetBefore
    /\ qTable[TrainedCell] # qBefore[TrainedCell]

\* C10: updateDone sets Q[discretize(state), action] to exactly the reward,
\* whatever it held, and changes no other entry of the table.
C10_UpdateDoneOverwrites ==
    pc = "q_done_updated" =>
        /\ qTable[TrainedCell] = reward * QScale
        /\ \A c \in TableIndex : c # TrainedCell => qTable[c] = qBefore[c]

\* C10 witness: updateDone has overwritten a non-zero estimate that differed
\* from the reward, in a table with another non-zero entry.
C10_Witness ==
    /\ pc = "q_done_updated"
    /\ qBefore[TrainedCell] # 0
    /\ qBefore[TrainedCell] # reward * QScale
    /\ qTable[TrainedCell] = reward * QScale
    /\ \E c \in TableIndex : c # TrainedCell /\ qBefore[c] # 0

(***************************************************************************)
(* Claims about the deep script.                                           *)
(***************************************************************************)
\* C2: update_weights copies the online parameters into the target network:
\* right after the call the target equals the online parameters as they were
\* just before it, and the online parameters are unchanged by the call.
C2_SyncCopiesOnlineIntoTarget ==
    synced => (cloneW = onlineAtSync /\ onlineW = onlineAtSync)

\* C3: update_weights is invoked at most once per episode, and only in
\* episodes whose index is a positive multiple of episodes_learning_batch.
C3_SyncAtMostOncePerEpisode ==
    /\ syncs_in_episode <= 1
    /\ syncs_in_episode > 0 =>
          (episode > 0 /\ episode % episodes_learning_batch = 0)

\* C4: Model.train never changes the target parameters; in any step that does
\* not invoke update_weights, whatever train calls it makes, the target
\* parameters stay as they were.
C4_TrainLeavesTarget == [][~synced' => cloneW' = cloneW]_vars

\* C4 witness: a step has trained the online network, without a sync, away
\* from its initial parameters and from the target's.
C4_Witness ==
    /\ trained /\ ~synced
    /\ onlineW # onlineStart
    /\ onlineW # cloneW

\* C5: once an env.step of the episode has returned terminated or truncated,
\* the loop calls env.step no more in that episode.
C5_NoStepAfterEpisodeOver == ~stepped_after_over

\* C7: with train_model False no step invokes Model.train, and the online
\* parameters stay as they were at the start of the run.
C7_NoTrainWhenDisabled ==
    ~train_model => (~trained /\ onlineW = onlineStart)

(***************************************************************************)
(* Claims about the tabular script and about both loops.                   *)
(***************************************************************************)
\* C6: when an episode ends by termination, after the step the entry of the
\* state the terminating transition was taken from, under its action, equals
\* the reward that transition returned.
C6_TerminalUpdateOnTransition ==
    (pc = "t_episode_end" /\ terminated) =>
        qTable[Cell(discretizeState(stateBefore), action)] = reward * QScale

\* C8: in both loops the exploration value is never negative, and once it is
\* at its floor 0 it stays there.
C8_ExplorationFloor ==
    /\ [](epsillon >= 0 /\ epsilon >= 0)
    /\ [][(epsillon = 0 => epsillon' = 0) /\ (epsilon = 0 => epsilon' = 0)]_vars

\* C8 witness: the tabular loop is stepping in its third episode with the
\* exploration value at the floor, every step of the first two episodes having
\* explored.
C8_Witness ==
    /\ pc = "t_loop"
    /\ episode = 2 /\ env_steps >= 1
    /\ epsillon = 0

(***************************************************************************)
(* Claims about FramesState and the deep loop's steps.                     *)
(***************************************************************************)
\* C11: once reset has been called, the stack holds exactly
\* frames_memory_length frames whatever addFrame and reset calls follow;
\* addFrame on a stack [x, y] leaves [y, processed(f)]; and the training loop
\* is never at a step, where it may call getTensor, with fewer than two frames.
C11_RingBuffer ==
    /\ was_reset => Len(frames_state) = frames_memory_length
    /\ (pc = "f_added" /\ Len(frames_before) = frames_memory_length) =>
          frames_state = <<frames_before[2], Processed(frame_in)>>
    /\ (pc = "d_loop" /\ consulted) =>
          frames_state = <<frames_before[2], Processed(frame_in)>>
    /\ pc = "d_loop" => (was_reset /\ Len(frames_state) = frames_memory_length)

\* C11 witness: addFrame has evicted a real frame from a full stack that held
\* two different frames, after a reset.
C11_Witness ==
    /\ pc = "f_added" /\ was_reset
    /\ Len(frames_before) = 2
    /\ frames_before[1] # ZeroFrame
    /\ frames_before[1] # frames_before[2]
    /\ Processed(frame_in) # frames_before[2]

\* C12: getTensor right after reset yields two all-zero frames, whatever the
\* stack held before the reset.
C12_ResetThenTensorIsZero ==
    (pc = "f_tensor" /\ prev_op = "f_reset") =>
        tensor = << <<ZeroFrame, ZeroFrame>> >>

\* C12 witness: the stack held two real frames, was reset, and getTensor
\* followed at once.
C12_Witness ==
    /\ pc = "f_tensor" /\ prev_op = "f_reset"
    /\ Len(frames_before) = 2
    /\ frames_before[1] # ZeroFrame /\ frames_before[2] # ZeroFrame
    /\ tensor = << <<ZeroFrame, ZeroFrame>> >>

\* The latest step of the episode was a skipped one / consulted the policy.
AfterSkippedStep == pc = "d_loop" /\ step > 0 /\ step % frames_to_skip # 0
AfterPolicyStep ==
    pc \in {"d_loop", "d_episode_end"} /\ step > 0 /\ step % frames_to_skip = 0

\* C16: a step whose index is no multiple of frames_to_skip does not consult
\* the policy, gives env.step the action 1, leaves the frame stack as it was,
\* and trains exactly when its reward is positive, on the current stack; the
\* steps whose index is a multiple of frames_to_skip consult the policy.
C16_FrameSkipping ==
    /\ AfterSkippedStep =>
          /\ ~consulted
          /\ env_action = 1
          /\ frames_state = frames_before
          /\ trained <=> (reward > 0)
          /\ trained => train_input = << <<frames_state[1], frames_state[2]>> >>
    /\ AfterPolicyStep => (consulted /\ env_action = action)
    /\ consulted => (step > 0 /\ step % frames_to_skip = 0)

\* C16 witness: training is disabled, and a skipped step with a positive
\* reward has trained on a stack that holds a real frame.
C16_Witness ==
    /\ AfterSkippedStep
    /\ ~train_model
    /\ reward > 0 /\ trained
    /\ frames_state[2] # ZeroFrame

\* C17: epsilon changes only when an episode is closed, never while
\* total_frames has not exceeded the warm-up; a change subtracts one decay
\* amount, or sets epsilon to 0 when the result is below
\* epsilon_terminal_value; epsilon never increases.
C17_EpsilonSchedule ==
    [][/\ epsilon' <= epsilon
       /\ epsilon' # epsilon =>
            /\ pc = "d_episode_end" /\ episode' = episode + 1
            /\ total_frames > warmup_frames
            /\ epsilon' = IF epsilon - 1 < epsilon_terminal_value
                          THEN 0 ELSE epsilon - 1]_vars

\* C17 witness: an episode was closed within the warm-up with epsilon left at
\* its start value, and a later one has decayed it by one amount.
C17_Witness ==
    /\ pc = "d_episode_start"
    /\ episode >= 2
    /\ epsilon = epsilon_start - 1
    /\ epsilon > 0

(***************************************************************************)
(* Claims about the Q-table's extents.                                     *)
(***************************************************************************)
\* Some extent computed by Qtable.__init__ is zero or negative.
NonPositiveDimension ==
    \/ \E d \in 1..2 : buckets[d] = 0
    \/ \E d \in 1..2 : TableShape[d] <= 0

\* C15: with a discretize_array that makes some table extent non-positive the
\* script stops while constructing the Q-table: it is never past the
\* construction, no env.reset and no env.step of an episode is executed.
C15_BadConfigStopsAtConstruction ==
    NonPositiveDimension => pc \in {"c_start", "c_value_error"}

\* The highest index an observation inside the bounds can have.
TopIndex(d) ==
    RoundHalfEven(observation_space_high[d] - observation_space_low[d], buckets[d])

InBounds(s) ==
    \A d \in 1..2 : observation_space_low[d] <= s[d] /\ s[d] <= observation_space_high[d]

\* C19: for an observation inside [low, high] and positive bin widths, every
\* index of discretizeState is at least 0 and at most round((high-low)/width),
\* which is below the extent Qtable.__init__ allocates: the access neither
\* wraps around nor raises.
C19_InBoundsIndexInExtent ==
    (pc = "disc_done" /\ InBounds(state)) =>
        /\ \A d \in 1..2 :
              /\ 0 <= ds[d]
              /\ ds[d] <= TopIndex(d)
              /\ TopIndex(d) < TableShape[d]
        /\ ~Raises(ds)
        /\ Cell(ds, 0) = <<ds[1], ds[2], 0>>

\* C19 witness: the observation at the upper bounds was discretized with a bin
\* width that does not divide the range, and its index is the last of the axis.
C19_Witness ==
    /\ pc = "disc_done"
    /\ state = observation_space_high
    /\ (observation_space_high[1] - observation_space_low[1]) % buckets[1] # 0
    /\ ds[1] = TableShape[1] - 1

(***************************************************************************)
(* Claims about the tabular reward shaping.                                *)
(***************************************************************************)
\* The reward the claim says train uses: the shaped one, or the raw one.
ShapedReward ==
    discretizeState(next_state)[1] * optimazeRewardMultiplier
        - (TableShape[1] * optimazeRewardMultiplier + 1)
UsedReward == IF optimazeReward THEN ShapedReward ELSE reward

\* C13: with shaping enabled the update of train is the one computed from
\* ds2[0] * multiplier - (len(qTable) * multiplier + 1), whatever the raw
\* reward; disabled, from the raw reward; and on the same table and transition
\* the enabled and the disabled update differ by learning_rate times the
\* difference of the two rewards.
C13_RewardShaping ==
    pc = "q_trained" =>
        LET c == TrainedCell
            old == qBefore[c]
            boot == RoundHalfEven(
                       discount_rate * RowMax(qBefore, discretizeState(next_state)), Pct)
            enabled == Train(qBefore, TRUE, state, action, reward, next_state)
            disabled == Train(qBefore, FALSE, state, action, reward, next_state)
        IN  /\ qTable[c] =
                 old + RoundHalfEven(learning_rate * (UsedReward * QScale + boot - old), Pct)
            /\ \A r \in Rewards :
                 Train(qBefore, TRUE, state, action, r, next_state) = enabled
            /\ (enabled[c] - disabled[c]) * Pct =
                 learning_rate * (ShapedReward - reward) * QScale

\* C13 witness: train ran with shaping enabled on a transition whose shaped
\* reward differs from the raw one, and changed the cell.
C13_Witness ==
    /\ pc = "q_trained"
    /\ optimazeReward
    /\ ShapedReward # reward
    /\ qTable[TrainedCell] # qBefore[TrainedCell]

(***************************************************************************)
(* Claims about the end of the tabular run and its demonstration.          *)
(***************************************************************************)
\* C14: the reward trace never holds more than min_episodes_criterion
\* entries; the loop is left by its break only when an episode has just been
\* closed, with the mean of the trace above reward_threshold and at least
\* min_episodes_criterion episodes elapsed; and a run that was not left by the
\* break has run all max_episodes episodes.
C14_EarlyStopAtBoundary ==
    /\ [](Len(episodes_reward) <= min_episodes_criterion)
    /\ []((pc \in {"t_finished", "t_not_solved", "t_solved"} /\ ~broke
             /\ pc # "t_solved") => episode = max_episodes)
    /\ [][(pc' = "t_break" /\ pc # "t_break") =>
            /\ pc = "t_episode_end" /\ done
            /\ SeqSum(episodes_reward') > reward_threshold * Len(episodes_reward')
            /\ Len(episodes_reward') = min_episodes_criterion
            /\ episode + 1 >= min_episodes_criterion
            /\ episode >= min_episodes_criterion]_vars

\* C14 witness: the loop was left by the break before its last episode, on a
\* trace that had already dropped an episode's reward.
C14_Witness ==
    /\ pc = "t_break"
    /\ episode = min_episodes_criterion
    /\ episode + 1 < max_episodes
    /\ Len(episodes_reward) = min_episodes_criterion

\* C18: the demonstration loop calls env.step no more in an episode once a
\* step has returned terminated = True.
C18_NoStepAfterTerminated == ~stepped_after_terminated

\* C20: after the loop the script reports Solved exactly when the loop was
\* left by the break; a loop that ran all its episodes ends with a mean that
\* does not exceed reward_threshold.
C20_SolvedIffBreak ==
    /\ pc \in {"t_solved", "t_not_solved"} => ((pc = "t_solved") <=> broke)
    /\ pc = "t_finished" => ~MeanAbove(mean_reward)
    /\ pc = "t_break" => MeanAbove(mean_reward)

\* C20 witness: a report before min_episodes_criterion episodes had a mean
\* above the threshold, the loop ran all its episodes, and Not solved was
\* reported.
C20_Witness ==
    /\ pc = "t_not_solved"
    /\ early_mean_high
    /\ ~broke
    /\ episode = max_episodes

====
